---- MODULE Spec2Model ----
(***************************************************************************)
(* FlexiShelf2: the shelf planogram application (Django app `shelf`).      *)
(*                                                                         *)
(* The persisted state is the ProductPlacement table and the height and    *)
(* y_position of every ShelfSegment.  The operations are the Ajax views of *)
(* shelf/views.py (place, update, delete, clear-all) and the segment       *)
(* height edit view, each executed serially as one step in Spec; the       *)
(* functions of shelf/services.py; and the management commands             *)
(* fix_overlaps and reset_placements.  What a view                         *)
(* answers is a function of the request and of the persisted state: the    *)
(* ...Verdict operators give the return statement it reaches, the ...Table *)
(* operators the table it leaves.  A request that is refused leaves the    *)
(* state as it was.                                                        *)
(*                                                                         *)
(* Lengths are exact decimals counted in hundredths of a centimetre        *)
(* (1000 = 10.0 cm), so that round_decimal, which rounds to one decimal    *)
(* place, is a real conversion: it maps a length to a multiple of 10.      *)
(***************************************************************************)
EXTENDS Integers, Sequences, FiniteSets, TLC

VARIABLES
    placements,   \* ProductPlacement table: pk -> row
    nextId,       \* the next auto-increment primary key of ProductPlacement
    segments,     \* ShelfSegment table: pk -> [height, y_position]
    pending,      \* per worker: the place request it has checked and not
                  \* yet written, or None
    report        \* what the last management command reported, or None

vars == <<placements, nextId, segments, pending, report>>

----------------------------------------------------------------------------
(* Bounds of the model *)

\* at most MaxId placements are ever created (primary keys 1..MaxId)
MaxId == 2

----------------------------------------------------------------------------
(* Master data: shelves, their segments, products *)

Shelves == {1, 2}

ShelfWidth(s) == IF s = 1 THEN 1000 ELSE 1009

Segs == {1, 2, 3}

SegShelf(g) == IF g = 3 THEN 2 ELSE 1

SegLevel(g) == IF g = 2 THEN 2 ELSE 1

\* segment_heights = [30, 35, ...] of shelf_create, by level
DefaultHeight(level) == IF level = 1 THEN 3000 ELSE 3500

Products == {1, 2}

ProductWidth(p) == IF p = 1 THEN 45 ELSE 400

ProductHeight(p) == IF p = 1 THEN 2000 ELSE 3200

----------------------------------------------------------------------------
(* Optional request fields: None is <<>>, a given value v is <<v>> *)

None == <<>>

Some(v) == <<v>>

Max(a, b) == IF a >= b THEN a ELSE b

Min(a, b) == IF a <= b THEN a ELSE b

----------------------------------------------------------------------------
(* models.py *)

\* Decimal(str(value)).quantize(Decimal('0.0'), rounding=ROUND_HALF_UP):
\* to the nearest multiple of 0.1 cm, a half rounding away from zero
round_decimal(value) ==
    IF value >= 0
    THEN ((value + 5) \div 10) * 10
    ELSE 0 - ((((0 - value) + 5) \div 10) * 10)

\* Product.get_occupied_width
get_occupied_width(p, face_count) == round_decimal(ProductWidth(p) * face_count)

\* the default tolerance of the overlap tests, 0.05 cm
Tolerance == 5

\* the pks of the placements of segment g (segment.placements.all())
SegPlacements(pls, g) == {i \in DOMAIN pls : pls[i].segment = g}

RECURSIVE SumOccupied(_, _)
SumOccupied(pls, ids) ==
    IF ids = {} THEN 0
    ELSE LET i == CHOOSE j \in ids : TRUE
         IN  pls[i].occupied_width + SumOccupied(pls, ids \ {i})

\* ShelfSegment.available_width
available_width(pls, g) ==
    Max(0, round_decimal(ShelfWidth(SegShelf(g))
                           - SumOccupied(pls, SegPlacements(pls, g))))

\* can_fit_product without the height comparison
can_fit_product_widthOnly(pls, segs, g, p, face_count) ==
    get_occupied_width(p, face_count) <= available_width(pls, g)

\* ShelfSegment.can_fit_product
can_fit_product(pls, segs, g, p, face_count) ==
    /\ ProductHeight(p) <= segs[g].height
    /\ get_occupied_width(p, face_count) <= available_width(pls, g)

\* ShelfSegment.get_placement_ranges: the range of one placement
RangeStart(pl) == round_decimal(pl.x_position)

RangeEnd(pl) == round_decimal(RangeStart(pl) + pl.occupied_width)

\* IsOverlapping with the first half of the test replaced by "the new range
\* starts inside the other": a range that starts before the other and runs
\* into it goes unnoticed
IsOverlapping_startInside(s1, e1, s2, e2) ==
    (s1 >= s2) /\ (s1 < e2 - Tolerance)

\* the tolerance test of two ranges, as every copy of it is written
IsOverlapping(s1, e1, s2, e2) ==
    (e1 > s2 + Tolerance) /\ (s1 < e2 - Tolerance)

\* the placements of segment g, other than those in `exclude`, whose range
\* overlaps [s, e)
OverlapHits(pls, g, exclude, s, e) ==
    {i \in SegPlacements(pls, g) \ exclude :
        IsOverlapping(s, e, RangeStart(pls[i]), RangeEnd(pls[i]))}

\* Meta.ordering = [shelf, segment__level, placement_order]: a loop over the
\* placements of one segment meets them by placement_order; rows of equal
\* placement_order come in an order the database chooses
FirstByOrder(pls, ids) ==
    {i \in ids : \A j \in ids : pls[i].placement_order <= pls[j].placement_order}

\* save without the recomputation of occupied_width
save_keepWidth(pl) ==
    [pl EXCEPT !.x_position = round_decimal(pl.x_position)]

\* ProductPlacement.save
save(pl) ==
    [pl EXCEPT !.x_position = round_decimal(pl.x_position),
               !.occupied_width = get_occupied_width(pl.product, pl.face_count)]

\* Max('placement_order') over the segment, or 0
MaxOrder(pls, g) ==
    LET ids == SegPlacements(pls, g)
    IN  IF ids = {} THEN 0
        ELSE LET m == CHOOSE i \in ids :
                        \A j \in ids : pls[i].placement_order >= pls[j].placement_order
             IN  pls[m].placement_order

\* a table with row i added or replaced
Put(pls, i, row) == [j \in DOMAIN pls \cup {i} |-> IF j = i THEN row ELSE pls[j]]

\* a table without the rows in ids
Remove(pls, ids) == [j \in DOMAIN pls \ ids |-> pls[j]]

----------------------------------------------------------------------------
(* views.py: place_product_ajax *)

\* x_position = round_decimal(float(...)); start_x = max(0, x_position)
PlaceStartX(r) == Max(0, round_decimal(r.x_position))

\* end_x = round_decimal(start_x + required_width)
PlaceEndX(r) ==
    round_decimal(PlaceStartX(r) + get_occupied_width(r.product_id, r.face_count))

\* the three get_object_or_404 of the view
PlaceFound(r) ==
    /\ r.shelf_id \in Shelves
    /\ r.segment_id \in Segs
    /\ SegShelf(r.segment_id) = r.shelf_id
    /\ r.product_id \in Products

\* PlaceHits finding only the placements that start where the candidate
\* starts
PlaceHits_sameStartOnly(pls, r) ==
    {i \in SegPlacements(pls, r.segment_id) : RangeStart(pls[i]) = PlaceStartX(r)}

\* the existing placements the view's loop finds overlapping
PlaceHits(pls, r) ==
    OverlapHits(pls, r.segment_id, {}, PlaceStartX(r), PlaceEndX(r))

\* PlaceNamed naming the first placement of the segment, overlapping or not
PlaceNamed_firstOnSegment(pls, r) ==
    FirstByOrder(pls, SegPlacements(pls, r.segment_id))

\* the placement the overlap message names: the first the loop meets
PlaceNamed(pls, r) == FirstByOrder(pls, PlaceHits(pls, r))

\* PlaceVerdict without the shelf width comparison
PlaceVerdict_noWidthCheck(pls, segs, r) ==
    IF ~PlaceFound(r) THEN "error"
    ELSE IF ~can_fit_product(pls, segs, r.segment_id, r.product_id, r.face_count)
         THEN "fit"
    ELSE IF PlaceHits(pls, r) # {} THEN "overlap"
    ELSE "ok"

\* PlaceVerdict with end_x >= shelf.width in place of end_x > shelf.width
PlaceVerdict_widthInclusive(pls, segs, r) ==
    IF ~PlaceFound(r) THEN "error"
    ELSE IF ~can_fit_product(pls, segs, r.segment_id, r.product_id, r.face_count)
         THEN "fit"
    ELSE IF PlaceEndX(r) >= ShelfWidth(r.shelf_id) THEN "width"
    ELSE IF PlaceHits(pls, r) # {} THEN "overlap"
    ELSE "ok"

\* which return statement the view reaches: "error" is the except branch
\* (a get_object_or_404 failed), "fit" the can_fit_product refusal, "width"
\* the shelf width refusal, "overlap" the overlap refusal, "ok" success
PlaceVerdict(pls, segs, r) ==
    IF ~PlaceFound(r) THEN "error"
    ELSE IF ~can_fit_product(pls, segs, r.segment_id, r.product_id, r.face_count)
         THEN "fit"
    ELSE IF PlaceEndX(r) > ShelfWidth(r.shelf_id) THEN "width"
    ELSE IF PlaceHits(pls, r) # {} THEN "overlap"
    ELSE "ok"

\* ProductPlacement.objects.create(...), which saves the new row
PlaceCreate(pls, r) ==
    save([shelf |-> r.shelf_id, segment |-> r.segment_id,
          product |-> r.product_id, x_position |-> PlaceStartX(r),
          face_count |-> r.face_count, occupied_width |-> 0,
          placement_order |-> MaxOrder(pls, r.segment_id) + 1])

\* the table a request that reached verdict v leaves, nid the next pk
PlaceTable(pls, nid, v, r) ==
    IF v = "ok" THEN Put(pls, nid, PlaceCreate(pls, r)) ELSE pls

place_product_ajax(r) ==
    \E v \in {PlaceVerdict(placements, segments, r)} :
        /\ (v = "ok") => (nextId <= MaxId)
        /\ placements' = PlaceTable(placements, nextId, v, r)
        /\ nextId' = IF v = "ok" THEN nextId + 1 ELSE nextId
        /\ UNCHANGED <<segments, pending, report>>

----------------------------------------------------------------------------
(* views.py: update_placement_ajax, and ProductPlacement.update_position *)

\* max(1, min(10, ...)): the largest face_count an update sets
FaceCountCap == 10

\* get_object_or_404 of the placement and, when given, of the new segment
\* MoveFound looking the new segment up by id alone, whichever shelf it is of
MoveFound_anyShelf(pls, r) ==
    /\ r.placement_id \in DOMAIN pls
    /\ (r.segment_id # None) => r.segment_id[1] \in Segs

MoveFound(pls, r) ==
    /\ r.placement_id \in DOMAIN pls
    /\ (r.segment_id # None) =>
          /\ r.segment_id[1] \in Segs
          /\ SegShelf(r.segment_id[1]) = pls[r.placement_id].shelf

\* placement.segment after the segment branch of the view
MoveTargetSegment(pls, r) ==
    IF r.segment_id # None THEN r.segment_id[1] ELSE pls[r.placement_id].segment

MoveNewX(pls, r) ==
    IF r.x_position # None
    THEN round_decimal(r.x_position[1])
    ELSE pls[r.placement_id].x_position

MoveNewFaceCount(pls, r) ==
    IF r.face_count # None
    THEN Max(1, Min(FaceCountCap, r.face_count[1]))
    ELSE IF r.face_count_change # None
    THEN Max(1, Min(FaceCountCap,
                    pls[r.placement_id].face_count + r.face_count_change[1]))
    ELSE pls[r.placement_id].face_count

MoveNewEndX(pls, r) ==
    round_decimal(MoveNewX(pls, r)
                  + get_occupied_width(pls[r.placement_id].product,
                                       MoveNewFaceCount(pls, r)))

\* the placements the view's loop finds overlapping (the moved one excluded)
MoveHits(pls, r) ==
    OverlapHits(pls, MoveTargetSegment(pls, r), {r.placement_id},
                MoveNewX(pls, r), MoveNewEndX(pls, r))

\* the placement the overlap message names: the first the loop meets
MoveNamed(pls, r) == FirstByOrder(pls, MoveHits(pls, r))

\* ProductPlacement._find_overlapping_placement of object obj with pk pid
find_overlapping_placement(pls, obj, pid) ==
    LET self_start == round_decimal(obj.x_position)
        self_end == round_decimal(self_start
                        + get_occupied_width(obj.product, obj.face_count))
    IN  OverlapHits(pls, obj.segment, {pid}, self_start, self_end)

\* ProductPlacement.clean raises ValidationError
CleanFails(pls, segs, obj, pid) ==
    \/ ProductHeight(obj.product) > segs[obj.segment].height
    \/ round_decimal(round_decimal(obj.x_position)
                     + get_occupied_width(obj.product, obj.face_count))
          > ShelfWidth(obj.shelf)
    \/ find_overlapping_placement(pls, obj, pid) # {}

\* update_position(new_x_position, new_face_count) on object obj: the
\* object clean() is called on, the new values set
UpdatePositionSet(obj, new_x_position, new_face_count) ==
    [obj EXCEPT
        !.x_position = round_decimal(new_x_position),
        !.face_count = IF new_face_count # None
                       THEN Max(1, new_face_count[1]) ELSE obj.face_count]

\* update_position on the stored placement pid fails: clean() raises
UpdatePositionFails(pls, segs, pid, new_x_position, new_face_count) ==
    CleanFails(pls, segs,
               UpdatePositionSet(pls[pid], new_x_position, new_face_count), pid)

\* the table update_position on the stored placement pid leaves: saved
\* after clean() passed, untouched when it raised
UpdatePositionTable(pls, segs, pid, new_x_position, new_face_count) ==
    IF UpdatePositionFails(pls, segs, pid, new_x_position, new_face_count)
    THEN pls
    ELSE Put(pls, pid,
             save(UpdatePositionSet(pls[pid], new_x_position, new_face_count)))

\* the object update_position on the stored placement pid leaves in memory:
\* the saved object, or, clean() having raised, the new values set back to
\* old_x and old_face_count
UpdatePositionMemory(pls, segs, pid, new_x_position, new_face_count) ==
    IF UpdatePositionFails(pls, segs, pid, new_x_position, new_face_count)
    THEN [UpdatePositionSet(pls[pid], new_x_position, new_face_count) EXCEPT
              !.x_position = pls[pid].x_position,
              !.face_count = pls[pid].face_count]
    ELSE save(UpdatePositionSet(pls[pid], new_x_position, new_face_count))

\* the object the view's update_position call validates: the segment the
\* view assigned, the new x_position and face_count set
UpdatedObject(pls, r) ==
    UpdatePositionSet([pls[r.placement_id] EXCEPT
                           !.segment = MoveTargetSegment(pls, r)],
                      MoveNewX(pls, r), Some(MoveNewFaceCount(pls, r)))

\* which return statement the view reaches: "error" is the except branch
\* (a get_object_or_404 failed), "fit" the can_fit_product refusal of the
\* new segment, "width" and "overlap" the view's own checks, "clean" the
\* refusal by update_position, "ok" success
MoveVerdict(pls, segs, r) ==
    IF ~MoveFound(pls, r) THEN "error"
    ELSE IF /\ r.segment_id # None
            /\ ~can_fit_product(pls, segs, r.segment_id[1],
                                pls[r.placement_id].product,
                                pls[r.placement_id].face_count)
         THEN "fit"
    ELSE IF MoveNewEndX(pls, r) > ShelfWidth(pls[r.placement_id].shelf)
         THEN "width"
    ELSE IF MoveHits(pls, r) # {} THEN "overlap"
    ELSE IF CleanFails(pls, segs, UpdatedObject(pls, r), r.placement_id)
         THEN "clean"
    ELSE "ok"

\* MoveTable of a view that saves the new position before its overlap loop
MoveTable_saveBeforeOverlapCheck(pls, v, r) ==
    IF v \in {"ok", "overlap"}
    THEN Put(pls, r.placement_id, save(UpdatedObject(pls, r)))
    ELSE pls

\* the table a request that reached verdict v leaves: only update_position
\* saves, and only after clean passed
MoveTable(pls, v, r) ==
    IF v = "ok"
    THEN Put(pls, r.placement_id, save(UpdatedObject(pls, r)))
    ELSE pls

\* the request's ProductPlacement object when the view returns with verdict
\* v: the segment is assigned before the width and overlap checks;
\* x_position and face_count are set by update_position, saved on success
\* and set back to old_x, old_face_count by its except branch
MoveMemory(pls, v, r) ==
    LET obj == pls[r.placement_id]
    IN  IF v = "ok" THEN save(UpdatedObject(pls, r))
        ELSE IF v = "fit" THEN obj
        ELSE IF v = "clean"
        THEN [UpdatedObject(pls, r) EXCEPT !.x_position = obj.x_position,
                                           !.face_count = obj.face_count]
        ELSE [obj EXCEPT !.segment = MoveTargetSegment(pls, r)]

update_placement_ajax(r) ==
    \E v \in {MoveVerdict(placements, segments, r)} :
        /\ placements' = MoveTable(placements, v, r)
        /\ UNCHANGED <<nextId, segments, pending, report>>

----------------------------------------------------------------------------
(* views.py: delete_placement_ajax, clear_all_placements_ajax *)

\* the table after a delete request (unchanged when the pk is not found)
DeleteTable(pls, pid) ==
    IF pid \in DOMAIN pls THEN Remove(pls, {pid}) ELSE pls

delete_placement_ajax(pid) ==
    /\ placements' = DeleteTable(placements, pid)
    /\ UNCHANGED <<nextId, segments, pending, report>>

\* ProductPlacement.objects.filter(shelf=shelf)
ShelfPlacements(pls, s) == {i \in DOMAIN pls : pls[i].shelf = s}

\* ClearTable deleting the placements of every shelf
ClearTable_everyShelf(pls, shelf_id) == Remove(pls, DOMAIN pls)

\* the table after a clear-all request (unchanged when the shelf is not found)
ClearTable(pls, shelf_id) ==
    IF shelf_id \in Shelves THEN Remove(pls, ShelfPlacements(pls, shelf_id)) ELSE pls

\* deleted_count = ProductPlacement.objects.filter(shelf=shelf).count(), the
\* number in the message of the answer
ClearCount(pls, shelf_id) ==
    IF shelf_id \in Shelves THEN Cardinality(ShelfPlacements(pls, shelf_id)) ELSE 0

clear_all_placements_ajax(shelf_id) ==
    /\ placements' = ClearTable(placements, shelf_id)
    /\ UNCHANGED <<nextId, segments, pending, report>>

----------------------------------------------------------------------------
(* views.py: shelf_segment_edit (POST) *)

\* shelf.segments.filter(is_active=True).order_by('level')
ShelfSegments(s) == IF s = 1 THEN <<1, 2>> ELSE <<3>>

\* segment.placements.aggregate(Max('product__height')), or 0
MaxProductHeight(pls, g) ==
    LET ids == SegPlacements(pls, g)
    IN  IF ids = {} THEN 0
        ELSE LET m == CHOOSE i \in ids :
                        \A j \in ids :
                            ProductHeight(pls[i].product) >= ProductHeight(pls[j].product)
             IN  ProductHeight(pls[m].product)

\* the loop of the view from the k-th segment of `order` on: a segment named
\* in the POST data gets its new height and the running y_pos, unless a
\* placed product is taller, which ends the request with what was saved
RECURSIVE EditLoop(_, _, _, _, _, _)
EditLoop(segs, pls, order, k, height_data, y_pos) ==
    IF k > Len(order) THEN [segments |-> segs, ok |-> TRUE]
    ELSE LET g == order[k]
         IN  IF g \in DOMAIN height_data
             THEN IF height_data[g] < MaxProductHeight(pls, g)
                  THEN [segments |-> segs, ok |-> FALSE]
                  ELSE EditLoop([segs EXCEPT ![g] = [height |-> height_data[g],
                                                     y_position |-> y_pos]],
                                pls, order, k + 1, height_data,
                                y_pos + height_data[g])
             ELSE EditLoop(segs, pls, order, k + 1, height_data, y_pos)

\* the outcome of a segment edit of shelf shelf_id with POST data height_data
SegmentEditOutcome(segs, pls, shelf_id, height_data) ==
    EditLoop(segs, pls, ShelfSegments(shelf_id), 1, height_data, 0)

shelf_segment_edit(shelf_id, height_data) ==
    /\ segments' = SegmentEditOutcome(segments, placements, shelf_id, height_data).segments
    /\ UNCHANGED <<placements, nextId, pending, report>>

----------------------------------------------------------------------------
(* views.py: the answers of the Ajax views *)

\* the answer of the return statement a request reaches, without the text
\* of its message: every answer is a JsonResponse of status 200; "success"
\* is the final return, "refusal" a return of the try block with success
\* False, "except" the return of the `except Exception` branch, whose error
\* is the view's prefix followed by str(e)
Answer(v) ==
    [http_status |-> 200,
     success |-> (v = "ok"),
     returned_by |-> IF v = "ok" THEN "success"
                     ELSE IF v = "error" THEN "except" ELSE "refusal"]

\* a request body that json.loads, float() or int() does not accept
MalformedBody == [raw |-> "x_position=abc"]

\* place_product_ajax: a malformed body raises before the lookups
PlaceResult(pls, segs, body) ==
    IF "raw" \in DOMAIN body THEN Answer("error")
    ELSE Answer(PlaceVerdict(pls, segs, body))

\* update_placement_ajax
MoveResult(pls, segs, body) ==
    IF "raw" \in DOMAIN body THEN Answer("error")
    ELSE Answer(MoveVerdict(pls, segs, body))

\* delete_placement_ajax
DeleteResult(pls, body) ==
    IF "raw" \in DOMAIN body THEN Answer("error")
    ELSE IF body.placement_id \in DOMAIN pls THEN Answer("ok") ELSE Answer("error")

----------------------------------------------------------------------------
(* services.py: ProductPlacementService *)

\* the names the module services.py binds: its imports and logger
ServiceNames ==
    {"transaction", "ValidationError", "Shelf", "ShelfSegment", "Product",
     "ProductPlacement", "logging", "logger"}

\* occupied_width = product.width * face_count, not rounded
ServiceWidth(r) == ProductWidth(r.product_id) * r.face_count

\* ProductPlacement.objects.filter(segment=segment,
\*     x_position__lt=x_position + occupied_width,
\*     x_position__gte=x_position - occupied_width)
ServiceOverlapQuery(pls, r) ==
    {i \in SegPlacements(pls, r.segment_id) :
        /\ pls[i].x_position < r.x_position + ServiceWidth(r)
        /\ pls[i].x_position >= r.x_position - ServiceWidth(r)}

\* the loop over the query finds a placement the candidate runs into
ServiceOverlapFound(pls, r) ==
    \E i \in ServiceOverlapQuery(pls, r) :
        ~(\/ r.x_position >= pls[i].x_position + pls[i].occupied_width
          \/ r.x_position + ServiceWidth(r) <= pls[i].x_position)

\* validate_placement(shelf, segment, product, x_position, face_count): the
\* list of errors, in the order the function appends them
validate_placement(pls, segs, r) ==
    (IF ProductHeight(r.product_id) > segs[r.segment_id].height
     THEN <<"height">> ELSE <<>>)
    \o (IF r.x_position + ServiceWidth(r) > ShelfWidth(r.shelf_id)
        THEN <<"width">> ELSE <<>>)
    \o (IF r.x_position < 0 THEN <<"x_position">> ELSE <<>>)
    \o (IF ServiceOverlapFound(pls, r) THEN <<"overlap">> ELSE <<>>)
    \o (IF r.face_count < 1 THEN <<"face_count_min">>
        ELSE IF r.face_count > 20 THEN <<"face_count_max">> ELSE <<>>)

\* place_product(shelf, segment, product, x_position, face_count), nid the
\* next pk: the exception it raises ("none" when it returns), the table it
\* leaves and the pk of the placement it returns.  It runs in
\* transaction.atomic, so an exception leaves the table as it was; the
\* aggregate is written models.Max, a name the module has to have bound
place_product(pls, nid, segs, r) ==
    IF validate_placement(pls, segs, r) # <<>>
    THEN [raised |-> "ValidationError", table |-> pls, returned |-> None]
    ELSE IF "models" \notin ServiceNames
    THEN [raised |-> "NameError", table |-> pls, returned |-> None]
    ELSE [raised |-> "none",
          table |-> Put(pls, nid,
                        save([shelf |-> r.shelf_id, segment |-> r.segment_id,
                              product |-> r.product_id,
                              x_position |-> r.x_position,
                              face_count |-> r.face_count,
                              occupied_width |-> 0,
                              placement_order |-> MaxOrder(pls, r.segment_id) + 1])),
          returned |-> Some(nid)]

\* the arguments the service functions are called with
ServiceXInputs == {-100, 0, 100, 500}

ServiceFaceInputs == {0, 2, 11, 21}

ServiceRequests ==
    [shelf_id : {1}, segment_id : {1, 2}, product_id : Products,
     x_position : ServiceXInputs, face_count : ServiceFaceInputs]

\* the loop of ShelfService.update_segment_heights from the k-th segment of
\* `order` on.  For a segment named in height_data the aggregate is written
\* models.Max(...), and services.py binds no name `models`
RECURSIVE HeightsLoop(_, _, _, _, _, _)
HeightsLoop(segs, pls, order, k, height_data, y_position) ==
    IF k > Len(order) THEN [raised |-> "none", segments |-> segs]
    ELSE LET g == order[k]
             named == g \in DOMAIN height_data
             height == IF named THEN height_data[g] ELSE segs[g].height
         IN  IF named /\ "models" \notin ServiceNames
             THEN [raised |-> "NameError", segments |-> segs]
             ELSE IF named /\ height_data[g] < MaxProductHeight(pls, g)
             THEN [raised |-> "ValidationError", segments |-> segs]
             ELSE HeightsLoop([segs EXCEPT ![g] = [height |-> height,
                                                   y_position |-> y_position]],
                              pls, order, k + 1, height_data, y_position + height)

\* ShelfService.update_segment_heights: an exception is raised again and
\* transaction.atomic rolls back what the loop saved
update_segment_heights(segs, pls, shelf_id, height_data) ==
    LET out == HeightsLoop(segs, pls, ShelfSegments(shelf_id), 1, height_data, 0)
    IN  IF out.raised = "none" THEN out
        ELSE [raised |-> out.raised, segments |-> segs]

----------------------------------------------------------------------------
(* management/commands/reset_placements.py *)

\* deleted_count = placements.count()
ResetCount(pls, shelf_id) == Cardinality(ShelfPlacements(pls, shelf_id))

\* placements.delete()
ResetTable(pls, shelf_id) == Remove(pls, ShelfPlacements(pls, shelf_id))

\* manage.py reset_placements --shelf-id <shelf_id> [--confirm]; answer is
\* what the operator types at the prompt when --confirm is not given
reset_placements(shelf_id, confirm, answer) ==
    /\ IF shelf_id \notin Shelves
       THEN /\ report' = Some([command |-> "reset_placements", shelf_id |-> shelf_id,
                               outcome |-> "not found", deleted |-> 0])
            /\ UNCHANGED placements
       ELSE IF ~confirm /\ answer # "y"
       THEN /\ report' = Some([command |-> "reset_placements", shelf_id |-> shelf_id,
                               outcome |-> "cancelled", deleted |-> 0])
            /\ UNCHANGED placements
       ELSE /\ report' = Some([command |-> "reset_placements", shelf_id |-> shelf_id,
                               outcome |-> "deleted",
                               deleted |-> ResetCount(placements, shelf_id)])
            /\ placements' = ResetTable(placements, shelf_id)
    /\ UNCHANGED <<nextId, segments, pending>>

----------------------------------------------------------------------------
(* management/commands/fix_overlaps.py *)

\* the strategies of --strategy
Strategies == {"compact", "spread", "delete_duplicates"}

\* abs(new_x - original_x) > 0.1: a placement nearer than this to its new
\* position is left where it is
MoveThreshold == 10

\* the 0.1 cm the compact strategy leaves after each placement
CompactGap == 10

Abs(v) == IF v >= 0 THEN v ELSE 0 - v

\* list(segment.placements.all().order_by('x_position')): the orders the
\* database may return the placements of segment g in, rows of equal
\* x_position coming in an order it chooses
SortedOrders(pls, g) ==
    LET ids == SegPlacements(pls, g)
        n == Cardinality(ids)
    IN  {o \in [1..n -> ids] :
            /\ \A a, b \in 1..n : a # b => o[a] # o[b]
            /\ \A a, b \in 1..n : a < b => pls[o[a]].x_position <= pls[o[b]].x_position}

\* find_overlaps_in_segment: the pairs of list positions a < b whose
\* placements overlap
find_overlaps_in_segment(pls, o) ==
    {ab \in (1..Len(o)) \X (1..Len(o)) :
        /\ ab[1] < ab[2]
        /\ IsOverlapping(RangeStart(pls[o[ab[1]]]), RangeEnd(pls[o[ab[1]]]),
                         RangeStart(pls[o[ab[2]]]), RangeEnd(pls[o[ab[2]]]))}

\* the overlaps as the nested loops append them: by first, then second
\* position, from pair <<a, b>> on
RECURSIVE OverlapList(_, _, _, _)
OverlapList(pls, o, a, b) ==
    IF a >= Len(o) THEN <<>>
    ELSE IF b > Len(o) THEN OverlapList(pls, o, a + 1, a + 2)
    ELSE (IF <<a, b>> \in find_overlaps_in_segment(pls, o)
          THEN << <<o[a], o[b]>> >> ELSE <<>>)
         \o OverlapList(pls, o, a, b + 1)

\* the loop of fix_overlaps_compact from the k-th placement of o on;
\* o holds the objects as loaded before the loop, pls is the table
RECURSIVE CompactLoop(_, _, _, _, _, _)
CompactLoop(pls, o, k, current_x, fixed_count, dry_run) ==
    IF k > Len(o) THEN [table |-> pls, fixed |-> fixed_count]
    ELSE LET original_x == pls[o[k]].x_position
             new_x == round_decimal(Max(current_x, 0))
             moved == Abs(new_x - original_x) > MoveThreshold
             obj == IF moved /\ ~dry_run
                    THEN save([pls[o[k]] EXCEPT !.x_position = new_x])
                    ELSE pls[o[k]]
         IN  CompactLoop(IF moved /\ ~dry_run THEN Put(pls, o[k], obj) ELSE pls,
                         o, k + 1,
                         new_x + obj.occupied_width + CompactGap,
                         IF moved THEN fixed_count + 1 ELSE fixed_count,
                         dry_run)

\* fix_overlaps_compact saving the moved placements in a dry run too
fix_overlaps_compact_dryRunSaves(pls, g, o, dry_run) ==
    CompactLoop(pls, o, 1, 0, 0, FALSE)

fix_overlaps_compact(pls, g, o, dry_run) ==
    CompactLoop(pls, o, 1, 0, 0, dry_run)

\* sum(p.occupied_width for p in placements)
RECURSIVE TotalWidth(_, _, _)
TotalWidth(pls, o, k) ==
    IF k > Len(o) THEN 0 ELSE pls[o[k]].occupied_width + TotalWidth(pls, o, k + 1)

\* round_decimal of the fraction num / den (den > 0, num >= 0)
round_fraction(num, den) == ((num + 5 * den) \div (10 * den)) * 10

\* the loop of fix_overlaps_spread from the k-th placement of o on;
\* current_x is kept as the numerator of a fraction over 2 * len(placements),
\* gap2 is gap_per_item over the same denominator
RECURSIVE SpreadLoop(_, _, _, _, _, _, _)
SpreadLoop(pls, o, k, current_num, gap2, fixed_count, dry_run) ==
    IF k > Len(o) THEN [table |-> pls, fixed |-> fixed_count]
    ELSE LET den == 2 * Len(o)
             original_x == pls[o[k]].x_position
             new_x == round_fraction(current_num, den)
             moved == Abs(new_x - original_x) > MoveThreshold
             obj == IF moved /\ ~dry_run
                    THEN save([pls[o[k]] EXCEPT !.x_position = new_x])
                    ELSE pls[o[k]]
         IN  SpreadLoop(IF moved /\ ~dry_run THEN Put(pls, o[k], obj) ELSE pls,
                        o, k + 1,
                        current_num + den * obj.occupied_width + gap2,
                        gap2,
                        IF moved THEN fixed_count + 1 ELSE fixed_count,
                        dry_run)

\* fix_overlaps_spread without the comparison of total_width with the shelf
\* width
fix_overlaps_spread_noCapacityCheck(pls, g, o, dry_run) ==
    LET total_width == TotalWidth(pls, o, 1)
        available == ShelfWidth(SegShelf(g))
    IN  SpreadLoop(pls, o, 1, available - total_width,
                   2 * (available - total_width), 0, dry_run)

\* fix_overlaps_spread: nothing is done when the placements are wider in
\* total than the shelf
fix_overlaps_spread(pls, g, o, dry_run) ==
    LET total_width == TotalWidth(pls, o, 1)
        available == ShelfWidth(SegShelf(g))
    IN  IF total_width > available
        THEN [table |-> pls, fixed |-> 0]
        ELSE SpreadLoop(pls, o, 1, available - total_width,
                        2 * (available - total_width), 0, dry_run)

\* the loop of fix_overlaps_delete from the k-th overlap on.  loaded holds
\* the objects as read before the loop.  gone holds the placements whose
\* delete() ran: delete() sets the id of the object to None, and the id is
\* added to deleted_placements after it, so marks holds None for them; in a
\* dry run marks holds the ids themselves
RECURSIVE DeleteLoop(_, _, _, _, _, _, _, _)
DeleteLoop(pls, loaded, overlaps, k, marks, gone, deleted_count, dry_run) ==
    IF k > Len(overlaps) THEN [table |-> pls, fixed |-> deleted_count]
    ELSE LET placement1 == overlaps[k][1]
             placement2 == overlaps[k][2]
             to_delete == IF loaded[placement1].x_position < loaded[placement2].x_position
                          THEN placement2 ELSE placement1
             id == IF to_delete \in gone THEN None ELSE Some(to_delete)
             fresh == id \notin marks
             deleting == fresh /\ ~dry_run
         IN  DeleteLoop(IF deleting THEN Remove(pls, {to_delete}) ELSE pls,
                        loaded, overlaps, k + 1,
                        IF fresh
                        THEN marks \cup {IF deleting THEN None ELSE id}
                        ELSE marks,
                        IF deleting THEN gone \cup {to_delete} ELSE gone,
                        IF fresh THEN deleted_count + 1 ELSE deleted_count,
                        dry_run)

\* fix_overlaps_delete handling the first overlap of the list only
fix_overlaps_delete_firstOverlapOnly(pls, o, dry_run) ==
    DeleteLoop(pls, pls, SubSeq(OverlapList(pls, o, 1, 2), 1, 1), 1, {}, {}, 0, dry_run)

fix_overlaps_delete(pls, o, dry_run) ==
    DeleteLoop(pls, pls, OverlapList(pls, o, 1, 2), 1, {}, {}, 0, dry_run)

\* FixSegment applying the strategy to every segment of two placements or
\* more, an overlap found or not
FixSegment_noOverlapCheck(pls, g, o, strategy, dry_run) ==
    IF Len(o) < 2 THEN [table |-> pls, fixed |-> 0]
    ELSE IF strategy = "compact" THEN fix_overlaps_compact(pls, g, o, dry_run)
    ELSE IF strategy = "spread" THEN fix_overlaps_spread(pls, g, o, dry_run)
    ELSE fix_overlaps_delete(pls, o, dry_run)

\* the body of the loop of fix_shelf_overlaps for segment g, whose
\* placements the database returned in the order o
FixSegment(pls, g, o, strategy, dry_run) ==
    IF Len(o) < 2 THEN [table |-> pls, fixed |-> 0]
    ELSE IF find_overlaps_in_segment(pls, o) = {} THEN [table |-> pls, fixed |-> 0]
    ELSE IF strategy = "compact" THEN fix_overlaps_compact(pls, g, o, dry_run)
    ELSE IF strategy = "spread" THEN fix_overlaps_spread(pls, g, o, dry_run)
    ELSE fix_overlaps_delete(pls, o, dry_run)

\* fix_shelf_overlaps from the k-th segment of the shelf on (by level);
\* orders[g] is the order the placements of segment g are returned in
RECURSIVE FixShelfLoop(_, _, _, _, _, _, _)
FixShelfLoop(pls, order, k, orders, strategy, dry_run, fixed_count) ==
    IF k > Len(order) THEN [table |-> pls, fixed |-> fixed_count]
    ELSE LET out == FixSegment(pls, order[k], orders[order[k]], strategy, dry_run)
         IN  FixShelfLoop(out.table, order, k + 1, orders, strategy, dry_run,
                          fixed_count + out.fixed)

fix_shelf_overlaps(pls, shelf_id, orders, strategy, dry_run) ==
    FixShelfLoop(pls, ShelfSegments(shelf_id), 1, orders, strategy, dry_run, 0)

\* the orders the segments' placements may be returned in
ShelfOrders(pls, shelf_id) ==
    {orders \in [{ShelfSegments(shelf_id)[k] : k \in 1..Len(ShelfSegments(shelf_id))}
                    -> UNION {SortedOrders(pls, g) : g \in Segs}] :
        \A g \in DOMAIN orders : orders[g] \in SortedOrders(pls, g)}

\* manage.py fix_overlaps --shelf-id <shelf_id> --strategy <strategy> [--dry-run]
fix_overlaps(shelf_id, strategy, dry_run) ==
    \E orders \in ShelfOrders(placements, shelf_id) :
        LET out == fix_shelf_overlaps(placements, shelf_id, orders, strategy, dry_run)
        IN  /\ placements' = out.table
            /\ report' = Some([command |-> "fix_overlaps", strategy |-> strategy,
                               dry_run |-> dry_run, fixed |-> out.fixed])
            /\ UNCHANGED <<nextId, segments, pending>>

----------------------------------------------------------------------------
(* management/commands/validate_shelf.py *)

\* abs(calculated_width - placement.occupied_width) > 0.1
WidthSlack == 10

\* RangesOverlap without the tolerance and with >= and <=: ranges that only
\* touch count as overlapping
RangesOverlap_touchingCounts(range1, range2) ==
    /\ range1.end >= range2.start
    /\ range1.start <= range2.end

\* the test of find_range_overlaps on two entries of ranges
RangesOverlap(range1, range2) ==
    /\ range1.end > range2.start + Tolerance
    /\ range1.start < range2.end - Tolerance

\* the entry validate_segment appends to ranges for a placement
RangeOf(pl) ==
    [start |-> round_decimal(pl.x_position),
     end |-> round_decimal(round_decimal(pl.x_position) + pl.occupied_width)]

\* the issues validate_segment appends for one placement of segment g
PlacementIssues(pl, segs, g) ==
    (IF Abs(get_occupied_width(pl.product, pl.face_count) - pl.occupied_width) > WidthSlack
     THEN <<"width">> ELSE <<>>)
    \o (IF ProductHeight(pl.product) > segs[g].height THEN <<"height">> ELSE <<>>)
    \o (IF pl.x_position + pl.occupied_width > ShelfWidth(SegShelf(g))
        THEN <<"shelf width">> ELSE <<>>)

\* the loop of validate_segment over the placements, from the k-th of o on
RECURSIVE PlacementLoop(_, _, _, _, _)
PlacementLoop(pls, segs, g, o, k) ==
    IF k > Len(o) THEN <<>>
    ELSE PlacementIssues(pls[o[k]], segs, g) \o PlacementLoop(pls, segs, g, o, k + 1)

\* find_range_overlaps: one entry per pair of list positions a < b whose
\* ranges overlap, from pair <<a, b>> on
RECURSIVE find_range_overlaps(_, _, _, _)
find_range_overlaps(pls, o, a, b) ==
    IF a >= Len(o) THEN <<>>
    ELSE IF b > Len(o) THEN find_range_overlaps(pls, o, a + 1, a + 2)
    ELSE (IF RangesOverlap(RangeOf(pls[o[a]]), RangeOf(pls[o[b]]))
          THEN <<"overlap">> ELSE <<>>)
         \o find_range_overlaps(pls, o, a, b + 1)

\* validate_segment: the issues of segment g, whose placements the database
\* returned in the order o
validate_segment(pls, segs, g, o) ==
    PlacementLoop(pls, segs, g, o, 1) \o find_range_overlaps(pls, o, 1, 2)

\* validate_shelf from the k-th segment of the shelf on (by level)
RECURSIVE ValidateShelfLoop(_, _, _, _, _)
ValidateShelfLoop(pls, segs, order, k, orders) ==
    IF k > Len(order) THEN <<>>
    ELSE validate_segment(pls, segs, order[k], orders[order[k]])
         \o ValidateShelfLoop(pls, segs, order, k + 1, orders)

validate_shelf(pls, segs, shelf_id, orders) ==
    ValidateShelfLoop(pls, segs, ShelfSegments(shelf_id), 1, orders)

\* manage.py validate_shelf --shelf-id <shelf_id>: reads, prints, writes
\* nothing
validate_shelf_command(shelf_id) ==
    \E orders \in ShelfOrders(placements, shelf_id) :
        /\ report' = Some([command |-> "validate_shelf", shelf_id |-> shelf_id,
                           issues |-> validate_shelf(placements, segments, shelf_id, orders)])
        /\ UNCHANGED <<placements, nextId, segments, pending>>

----------------------------------------------------------------------------
(* Requests *)

\* x_position of a place request; 501 is not a multiple of 0.1 cm
XInputs == {-100, 0, 500, 501}

\* face_count of a place request
FaceInputs == {2, 11, 21}

\* the place requests: every product on every segment of shelf 1, and one
\* request that names a segment of another shelf
PlaceRequests ==
    [shelf_id : {1}, segment_id : {1, 2}, product_id : Products,
     x_position : XInputs, face_count : FaceInputs]
    \cup {[shelf_id |-> 2, segment_id |-> 1, product_id |-> 1,
           x_position |-> 0, face_count |-> 2]}

MoveXInputs == {-100, 0, 500}

MoveFaceInputs == {2, 11}

\* the update requests; face_count_change is read only without face_count
MoveRequests ==
    {r \in [placement_id : 1..MaxId,
            x_position : {None} \cup {Some(x) : x \in MoveXInputs},
            face_count : {None} \cup {Some(f) : f \in MoveFaceInputs},
            face_count_change : {None, Some(9)},
            segment_id : {None} \cup {Some(g) : g \in {1, 2}}] :
        (r.face_count_change # None) => (r.face_count = None)}

\* the new heights a segment edit asks for
HeightInputs == {3000}

\* the shelves whose segments are edited
EditShelves == {1}

\* the POST data of a segment edit of shelf s: new heights for some of its
\* segments
EditRequests(s) ==
    UNION {[S -> HeightInputs] :
             S \in (SUBSET {ShelfSegments(s)[k] : k \in 1..Len(ShelfSegments(s))}) \ {{}}}

----------------------------------------------------------------------------
(* The specification: the requests are served one at a time *)

\* the workers that serve requests
Workers == {1, 2, 3}

\* level-ordered cumulative y_position of a new shelf's segments
RECURSIVE InitialY(_, _)
InitialY(order, k) ==
    IF k <= 1 THEN 0
    ELSE InitialY(order, k - 1) + DefaultHeight(SegLevel(order[k - 1]))

\* the segments shelf_create makes for the shelves: levels 1..n, each at the
\* sum of the heights below it
CreatedSegments ==
    [g \in Segs |->
        [height |-> DefaultHeight(SegLevel(g)),
         y_position |-> InitialY(ShelfSegments(SegShelf(g)), SegLevel(g))]]

Init ==
    /\ placements = [i \in {} |-> 0]
    /\ nextId = 1
    /\ segments = CreatedSegments
    /\ pending = [w \in Workers |-> None]
    /\ report = None

Place == \E r \in PlaceRequests : place_product_ajax(r)

Move == \E r \in MoveRequests : update_placement_ajax(r)

Delete == \E pid \in 1..MaxId : delete_placement_ajax(pid)

ClearAll == \E s \in Shelves : clear_all_placements_ajax(s)

SegmentEdit ==
    \E s \in EditShelves : \E hd \in EditRequests(s) : shelf_segment_edit(s, hd)

Next == Place \/ Move \/ Delete \/ ClearAll \/ SegmentEdit

Spec == Init /\ [][Next]_vars

----------------------------------------------------------------------------
(* The specification of concurrent place requests and the repair command: *)
(* place_product_ajax runs in several workers at once, without a lock or  *)
(* a transaction, so the reads of one request and its INSERT are two      *)
(* steps between which other workers and the command may run              *)

\* at most RaceCap placements are ever created in RaceSpec
RaceCap == 3

RaceXInputs == {0, 10, 90}

RaceFaceInputs == {2, 21}

\* the place requests of RaceSpec: product 1 on segment 1 of shelf 1
RaceRequests ==
    [shelf_id : {1}, segment_id : {1}, product_id : {1},
     x_position : RaceXInputs, face_count : RaceFaceInputs]

Busy == {w \in Workers : pending[w] # None}

\* place_product_ajax up to and including the overlap loop: worker w reads
\* the table and reaches a verdict; a refusal is answered at once, on "ok"
\* the INSERT is still to come.  Idle workers are interchangeable: the
\* lowest one takes the request
place_product_check(w, r) ==
    /\ pending[w] = None
    /\ \A v \in Workers : v < w => pending[v] # None
    /\ nextId + Cardinality(Busy) <= RaceCap
    /\ pending' = IF PlaceVerdict(placements, segments, r) = "ok"
                  THEN [pending EXCEPT ![w] = Some([request |-> r, seen |-> placements])]
                  ELSE pending
    /\ UNCHANGED <<placements, nextId, segments, report>>

\* the rest of place_product_ajax: the Max('placement_order') aggregate and
\* ProductPlacement.objects.create
place_product_create(w) ==
    /\ pending[w] # None
    /\ placements' = Put(placements, nextId, PlaceCreate(placements, pending[w][1].request))
    /\ nextId' = nextId + 1
    /\ pending' = [pending EXCEPT ![w] = None]
    /\ UNCHANGED <<segments, report>>

PlaceCheck == \E w \in Workers : \E r \in RaceRequests : place_product_check(w, r)

PlaceCreateStep == \E w \in Workers : place_product_create(w)

FixOverlaps ==
    \E strategy \in Strategies : \E dry_run \in BOOLEAN :
        fix_overlaps(1, strategy, dry_run)

RaceNext == PlaceCheck \/ PlaceCreateStep \/ FixOverlaps

RaceSpec == Init /\ [][RaceNext]_vars

----------------------------------------------------------------------------
(* The specification of concurrent place requests that fill a segment to  *)
(* the shelf width, and the repair command with the spread strategy       *)

FillXInputs == {0, 940}

FillFaceInputs == {1, 21}

\* the place requests of FillSpec: product 1 on segment 1 of shelf 1, 0.5 or
\* 9.5 cm wide, at the left end or 0.6 cm from the right end
FillRequests ==
    [shelf_id : {1}, segment_id : {1}, product_id : {1},
     x_position : FillXInputs, face_count : FillFaceInputs]

FillCheck == \E w \in Workers : \E r \in FillRequests : place_product_check(w, r)

FillSpread == \E dry_run \in BOOLEAN : fix_overlaps(1, "spread", dry_run)

FillNext == FillCheck \/ PlaceCreateStep \/ FillSpread

FillSpec == Init /\ [][FillNext]_vars

----------------------------------------------------------------------------
(* The specification of the validation sweep: it is run on tables as the  *)
(* views, concurrent requests, the repair command and edits of products,  *)
(* segments and shelves in the Django admin leave them, and then the      *)
(* shelf is cleared                                                       *)

SweepXInputs == {0, 50, 90, 960}

\* what is added to the recomputed width to get the stored one: 0, or 0.1
\* or 0.2 cm after ProductAdmin changed the width of a placed product
SweepWidthDrift == {0, 10, 20}

\* the rows of the tables SweepSpec starts from: two faces of either
\* product on segment 1 of shelf 1
SweepRows ==
    {[shelf |-> 1, segment |-> 1, product |-> p, x_position |-> x, face_count |-> 2,
      occupied_width |-> get_occupied_width(p, 2) + d, placement_order |-> 1] :
        p \in Products, x \in SweepXInputs, d \in SweepWidthDrift}

\* the tables SweepSpec starts from: none, one or two rows
SweepTables ==
    {[i \in {} |-> 0]}
    \cup {[i \in {1} |-> row] : row \in SweepRows}
    \cup {[i \in {1, 2} |-> IF i = 1 THEN row1
                            ELSE [row2 EXCEPT !.placement_order = 2]] :
             row1 \in SweepRows, row2 \in SweepRows}

SweepInit ==
    /\ placements \in SweepTables
    /\ nextId = Cardinality(DOMAIN placements) + 1
    /\ segments = CreatedSegments
    /\ pending = [w \in Workers |-> None]
    /\ report = None

Sweep == \E s \in Shelves : validate_shelf_command(s)

SweepClear == clear_all_placements_ajax(1)

SweepNext == Sweep \/ SweepClear

SweepSpec == SweepInit /\ [][SweepNext]_vars

----------------------------------------------------------------------------
(* The specification of the administration of two shelves: placing on    *)
(* both, segment height edits, clear-all and the reset command, served    *)
(* one at a time                                                          *)

AdminXInputs == {0, 500}

\* the place requests of AdminSpec: one face of either product on any
\* segment of either shelf
AdminPlaceRequests ==
    {r \in [shelf_id : Shelves, segment_id : Segs, product_id : Products,
            x_position : AdminXInputs, face_count : {1}] :
        SegShelf(r.segment_id) = r.shelf_id}

AdminHeightInputs == {2500, 3300}

\* the POST data of a segment edit of shelf s in AdminSpec
AdminEditRequests(s) ==
    UNION {[S -> AdminHeightInputs] :
             S \in (SUBSET {ShelfSegments(s)[k] : k \in 1..Len(ShelfSegments(s))}) \ {{}}}

\* shelf ids given to the commands and views: the shelves and one id that
\* no shelf has
AdminShelfIds == Shelves \cup {3}

AdminPlace == \E r \in AdminPlaceRequests : place_product_ajax(r)

AdminEdit ==
    \E s \in Shelves : \E hd \in AdminEditRequests(s) : shelf_segment_edit(s, hd)

AdminClear == \E s \in AdminShelfIds : clear_all_placements_ajax(s)

AdminReset ==
    \E s \in AdminShelfIds : \E confirm \in BOOLEAN : \E answer \in {"y", "n"} :
        reset_placements(s, confirm, answer)

AdminNext == AdminPlace \/ AdminEdit \/ AdminClear \/ AdminReset

AdminSpec == Init /\ [][AdminNext]_vars

----------------------------------------------------------------------------
(* The specification of moves between segments: products are placed on    *)
(* the first level of either shelf, naming any shelf with any such        *)
(* segment, and are moved to any segment of either shelf or deleted.      *)

CrossXInputs == {0, 500, 900}

\* place requests on the segments of level 1; a placement found on segment 2
\* has been moved there
CrossPlaceRequests ==
    [shelf_id : Shelves, segment_id : {1, 3}, product_id : {1},
     x_position : CrossXInputs, face_count : {2}]

CrossMoveRequests ==
    [placement_id : 1..MaxId,
     x_position : {None} \cup {Some(x) : x \in CrossXInputs},
     face_count : {None},
     face_count_change : {None},
     segment_id : {None} \cup {Some(g) : g \in Segs}]

CrossPlace == \E r \in CrossPlaceRequests : place_product_ajax(r)

CrossMove == \E r \in CrossMoveRequests : update_placement_ajax(r)

CrossNext == CrossPlace \/ CrossMove \/ Delete

CrossSpec == Init /\ [][CrossNext]_vars

----------------------------------------------------------------------------
(* The specification of the repair command on a shelf of two segments: it *)
(* starts from any table of up to three placements on segments 1 and 2,   *)
(* overlapping or not, the stored widths as saved or 0.1 cm off after     *)
(* ProductAdmin changed the width of the product, and runs fix_overlaps.  *)

MendXInputs == {0, 50, 500}

MendWidthDrift == {0, 10}

MendRows ==
    {[shelf |-> 1, segment |-> g, product |-> 1, x_position |-> x, face_count |-> 2,
      occupied_width |-> get_occupied_width(1, 2) + d, placement_order |-> 1] :
        g \in {1, 2}, x \in MendXInputs, d \in MendWidthDrift}

\* the k-th row created on its segment has placement_order k
MendOrder(rows, k) ==
    Cardinality({j \in 1..k : rows[j].segment = rows[k].segment})

MendTables ==
    UNION {{[i \in 1..n |-> [rows[i] EXCEPT !.placement_order = MendOrder(rows, i)]] :
               rows \in [1..n -> MendRows]} : n \in 0..3}

MendInit ==
    /\ placements \in MendTables
    /\ nextId = Cardinality(DOMAIN placements) + 1
    /\ segments = CreatedSegments
    /\ pending = [w \in Workers |-> None]
    /\ report = None

MendNext == FixOverlaps

MendSpec == MendInit /\ [][MendNext]_vars

----------------------------------------------------------------------------
(* The vocabulary of the claims *)

\* round_cm: round half up to one decimal place
RoundCm(v) ==
    IF v >= 0 THEN 10 * ((v + 5) \div 10) ELSE 0 - 10 * ((5 - v) \div 10)

\* the interval [round_cm(x), round_cm(x + occupied_width)) of a placement
IntervalStart(pl) == RoundCm(pl.x_position)

IntervalEnd(pl) == RoundCm(pl.x_position + pl.occupied_width)

\* two intervals overlap under the tolerance test
Overlap(s1, e1, s2, e2) == (e1 > s2 + Tolerance) /\ (s1 < e2 - Tolerance)

\* MAX_FACE_COUNT, 20 unless the settings say otherwise
MaxFaceCount == 20

\* the candidate of a place request: its interval and its width
CandWidth(r) == RoundCm(ProductWidth(r.product_id) * r.face_count)

CandStart(r) == IF RoundCm(r.x_position) > 0 THEN RoundCm(r.x_position) ELSE 0

CandEnd(r) == RoundCm(CandStart(r) + CandWidth(r))

\* the placements of the target segment the candidate overlaps
CandOverlapped(r) ==
    {i \in DOMAIN placements :
        /\ placements[i].segment = r.segment_id
        /\ Overlap(CandStart(r), CandEnd(r),
                   IntervalStart(placements[i]), IntervalEnd(placements[i]))}

\* every placement of the table has a face count in [1, MAX_FACE_COUNT] and
\* a non-negative x_position
Regular ==
    \A i \in DOMAIN placements :
        /\ placements[i].face_count \in 1..MaxFaceCount
        /\ placements[i].x_position >= 0

\* what the place view answers to r in the current state
PlaceAnswer(r) == PlaceVerdict(placements, segments, r)

\* what the update view answers to r in the current state
MoveAnswer(r) == MoveVerdict(placements, segments, r)

----------------------------------------------------------------------------
(* C1 *)

\* C1: in every state, no two distinct placements of one segment have
\* intervals [round_cm(x), round_cm(x + occupied_width)) that overlap under
\* the 0.05 cm tolerance test.
C1_NoOverlap ==
    \A i, j \in DOMAIN placements :
        (i # j /\ placements[i].segment = placements[j].segment) =>
            ~Overlap(IntervalStart(placements[i]), IntervalEnd(placements[i]),
                     IntervalStart(placements[j]), IntervalEnd(placements[j]))

\* two placements of one segment touch end to start, the second one having
\* been given its face count by an update
C1_Witness ==
    \E i, j \in DOMAIN placements :
        /\ Regular
        /\ i # j
        /\ placements[i].segment = placements[j].segment
        /\ IntervalEnd(placements[i]) = IntervalStart(placements[j])
        /\ placements[j].face_count = FaceCountCap

----------------------------------------------------------------------------
(* C2 *)

\* C2: in every state, every placement ends within the shelf of its
\* segment: x_position + occupied_width <= shelf.width.
C2_WithinShelf ==
    \A i \in DOMAIN placements :
        placements[i].x_position + placements[i].occupied_width
            <= ShelfWidth(SegShelf(placements[i].segment))

\* a placement that does not start at 0 ends exactly at the shelf width
C2_Witness ==
    \E i \in DOMAIN placements :
        /\ placements[i].x_position > 0
        /\ placements[i].x_position + placements[i].occupied_width
              = ShelfWidth(SegShelf(placements[i].segment))

----------------------------------------------------------------------------
(* C3 *)

\* C3: in every state (after any place, move or segment height edit) the
\* product of every placement is no taller than the placement's segment,
\* and a place request for a product taller than the target segment is
\* refused, nothing stored, whatever its x_position and face_count.
C3_HeightFits ==
    /\ \A i \in DOMAIN placements :
          ProductHeight(placements[i].product)
              <= segments[placements[i].segment].height
    /\ \A r \in PlaceRequests :
          (PlaceFound(r)
           /\ ProductHeight(r.product_id) > segments[r.segment_id].height) =>
              /\ PlaceAnswer(r) \notin {"ok", "error"}
              /\ PlaceTable(placements, nextId, PlaceAnswer(r), r) = placements

\* segment 2 has been lowered by a segment edit while it holds a placement,
\* and the tall product, which fitted it before, is now refused there
C3_Witness ==
    /\ segments[2].height < DefaultHeight(SegLevel(2))
    /\ \E i \in DOMAIN placements : placements[i].segment = 2
    /\ \E r \in PlaceRequests :
          /\ r.segment_id = 2
          /\ ProductHeight(r.product_id) > segments[2].height
          /\ ProductHeight(r.product_id) <= DefaultHeight(SegLevel(2))
          /\ PlaceAnswer(r) = "fit"

----------------------------------------------------------------------------
(* C4 *)

\* C4: in every state, the stored occupied_width of every placement equals
\* round_cm(product.width * face_count).
C4_OccupiedWidth ==
    \A i \in DOMAIN placements :
        placements[i].occupied_width
            = RoundCm(ProductWidth(placements[i].product) * placements[i].face_count)

\* a placement whose width had to be rounded (4.95 cm stored as 5.0), beside
\* one whose face count an update changed
C4_Witness ==
    /\ Regular
    /\ \E i \in DOMAIN placements :
          /\ ProductWidth(placements[i].product) * placements[i].face_count
                # placements[i].occupied_width
          /\ placements[i].occupied_width = 500
    /\ \E j \in DOMAIN placements :
          /\ placements[j].face_count = FaceCountCap
          /\ placements[j].occupied_width = 450

----------------------------------------------------------------------------
(* C5 *)

\* C5: in every state, the face_count of every placement is an integer in
\* [1, MAX_FACE_COUNT].
C5_FaceCountInRange ==
    \A i \in DOMAIN placements :
        placements[i].face_count \in 1..MaxFaceCount

----------------------------------------------------------------------------
(* C6 *)

\* C6: in every state, the x_position of every placement is >= 0.
C6_NonNegativeX ==
    \A i \in DOMAIN placements : placements[i].x_position >= 0

----------------------------------------------------------------------------
(* C7 *)

\* the x_position, face_count and segment an update request asks for
AskedX(r) ==
    IF r.x_position # None THEN RoundCm(r.x_position[1])
    ELSE placements[r.placement_id].x_position

AskedFaceCount(r) ==
    IF r.face_count # None THEN r.face_count[1]
    ELSE placements[r.placement_id].face_count

AskedSegment(r) ==
    IF r.segment_id # None THEN r.segment_id[1]
    ELSE placements[r.placement_id].segment

AskedWidth(r) ==
    RoundCm(ProductWidth(placements[r.placement_id].product) * AskedFaceCount(r))

\* the update request r is legal: the table is regular, the placement
\* exists, the target segment is one of its shelf, the face count is in
\* [1, MAX_FACE_COUNT], the x_position is not negative, and the resulting
\* placement fits the target segment in height and width and overlaps no
\* other placement of it
LegalMove(r) ==
    /\ Regular
    /\ r.placement_id \in DOMAIN placements
    /\ r.face_count_change = None
    /\ AskedSegment(r) \in Segs
    /\ SegShelf(AskedSegment(r)) = placements[r.placement_id].shelf
    /\ AskedFaceCount(r) \in 1..MaxFaceCount
    /\ AskedX(r) >= 0
    /\ ProductHeight(placements[r.placement_id].product)
          <= segments[AskedSegment(r)].height
    /\ AskedX(r) + AskedWidth(r) <= ShelfWidth(SegShelf(AskedSegment(r)))
    /\ \A i \in DOMAIN placements \ {r.placement_id} :
          placements[i].segment = AskedSegment(r) =>
              ~Overlap(AskedX(r), RoundCm(AskedX(r) + AskedWidth(r)),
                       IntervalStart(placements[i]), IntervalEnd(placements[i]))

\* C7: a legal update request is accepted, and the placement is persisted
\* with exactly the x_position, face_count and segment asked for.
C7_LegalMoveAccepted ==
    \A r \in MoveRequests :
        LegalMove(r) =>
            /\ MoveAnswer(r) = "ok"
            /\ LET row == MoveTable(placements, MoveAnswer(r), r)[r.placement_id]
               IN  /\ row.x_position = AskedX(r)
                   /\ row.face_count = AskedFaceCount(r)
                   /\ row.segment = AskedSegment(r)

----------------------------------------------------------------------------
(* C8 *)

\* the arguments of a call of update_position
PositionArgs ==
    [x : MoveXInputs, face_count : {None} \cup {Some(f) : f \in MoveFaceInputs}]

\* C8: an update request refused for a height, width or overlap violation
\* leaves the table as it was, and the placement object of the request has
\* its x_position and face_count of before the request; likewise a call of
\* update_position on a stored placement that fails validation.
C8_RefusedMoveChangesNothing ==
    /\ \A r \in MoveRequests :
          MoveAnswer(r) \in {"fit", "width", "overlap", "clean"} =>
              /\ MoveTable(placements, MoveAnswer(r), r) = placements
              /\ MoveMemory(placements, MoveAnswer(r), r).x_position
                    = placements[r.placement_id].x_position
              /\ MoveMemory(placements, MoveAnswer(r), r).face_count
                    = placements[r.placement_id].face_count
    /\ \A pid \in DOMAIN placements : \A a \in PositionArgs :
          UpdatePositionFails(placements, segments, pid, a.x, a.face_count) =>
              /\ UpdatePositionTable(placements, segments, pid, a.x, a.face_count)
                    = placements
              /\ UpdatePositionMemory(placements, segments, pid, a.x,
                                      a.face_count).x_position
                    = placements[pid].x_position
              /\ UpdatePositionMemory(placements, segments, pid, a.x,
                                      a.face_count).face_count
                    = placements[pid].face_count

\* a state in which one update is refused for an overlap on another segment,
\* one for the shelf width and one for the height of the new segment, and
\* in which update_position, called with another x_position and face count,
\* fails validation
C8_Witness ==
    /\ Regular
    /\ \E r \in MoveRequests :
          /\ MoveAnswer(r) = "overlap"
          /\ r.segment_id # None
          /\ r.segment_id[1] # placements[r.placement_id].segment
    /\ \E r \in MoveRequests :
          /\ MoveAnswer(r) = "width"
          /\ r.x_position # None
          /\ r.x_position[1] # placements[r.placement_id].x_position
    /\ \E r \in MoveRequests :
          /\ MoveAnswer(r) = "fit"
          /\ ProductHeight(placements[r.placement_id].product)
                > segments[r.segment_id[1]].height
    /\ \E pid \in DOMAIN placements : \E a \in PositionArgs :
          /\ UpdatePositionFails(placements, segments, pid, a.x, a.face_count)
          /\ a.x # placements[pid].x_position
          /\ a.face_count # None
          /\ a.face_count[1] # placements[pid].face_count

----------------------------------------------------------------------------
(* C9 *)

\* C9 as stated: a place request whose candidate overlaps a placement of
\* the target segment is refused with the overlap violation, and the
\* placement the violation names overlaps the candidate.
C9_OverlapAlwaysReported ==
    \A r \in PlaceRequests :
        (PlaceFound(r) /\ CandOverlapped(r) # {}) =>
            /\ PlaceAnswer(r) = "overlap"
            /\ PlaceNamed(placements, r) # {}
            /\ PlaceNamed(placements, r) \subseteq CandOverlapped(r)

\* C9, amended: a place request whose candidate overlaps a placement of the
\* target segment is refused and nothing is stored; when the product fits
\* the segment (height, and width within the available width) and the
\* candidate ends within the shelf, the refusal is the overlap violation
\* and the placement it names is one of that segment that overlaps the
\* candidate.
C9_OverlapRefused ==
    \A r \in PlaceRequests :
        (PlaceFound(r) /\ CandOverlapped(r) # {}) =>
            /\ PlaceAnswer(r) \in {"fit", "width", "overlap"}
            /\ PlaceTable(placements, nextId, PlaceAnswer(r), r) = placements
            /\ (/\ ProductHeight(r.product_id) <= segments[r.segment_id].height
                /\ CandWidth(r) <= available_width(placements, r.segment_id)
                /\ CandEnd(r) <= ShelfWidth(r.shelf_id)) =>
                  /\ PlaceAnswer(r) = "overlap"
                  /\ PlaceNamed(placements, r) # {}
                  /\ PlaceNamed(placements, r) \subseteq CandOverlapped(r)

\* a segment holds two placements and a request overlaps the second of them
\* only, which is the one the overlap violation names
C9_Witness ==
    \E r \in PlaceRequests :
        /\ Regular
        /\ PlaceAnswer(r) = "overlap"
        /\ \E i \in SegPlacements(placements, r.segment_id) :
              i \notin CandOverlapped(r)
        /\ PlaceNamed(placements, r) # {}
        /\ PlaceNamed(placements, r) \subseteq CandOverlapped(r)

----------------------------------------------------------------------------
(* C10 *)

\* the candidate of r, taken at the x_position as sent, overlaps placement i
RawOverlapped(r) ==
    {i \in DOMAIN placements :
        /\ placements[i].segment = r.segment_id
        /\ Overlap(r.x_position, r.x_position + CandWidth(r),
                   IntervalStart(placements[i]), IntervalEnd(placements[i]))}

\* C10 as stated: a place request with x_position + occupied_width equal to
\* shelf.width, the height fitting and nothing overlapped, is accepted; one
\* with x_position + occupied_width equal to shelf.width + 0.01 is refused.
C10_BoundaryAsSent ==
    \A r \in PlaceRequests :
        PlaceFound(r) =>
            /\ (/\ r.x_position + CandWidth(r) = ShelfWidth(r.shelf_id)
                /\ ProductHeight(r.product_id) <= segments[r.segment_id].height
                /\ RawOverlapped(r) = {}) => PlaceAnswer(r) = "ok"
            /\ (r.x_position + CandWidth(r) = ShelfWidth(r.shelf_id) + 1) =>
                  PlaceAnswer(r) # "ok"

\* C10, amended: the boundary is taken at the x_position rounded to 0.1 cm
\* (and raised to 0).  A place request whose rounded x_position +
\* occupied_width equals shelf.width, the product fitting the segment in
\* height and in available width and nothing overlapped, is accepted and
\* stored ending at shelf.width; one whose rounded x_position +
\* occupied_width exceeds shelf.width is refused and nothing is stored.
C10_BoundaryRounded ==
    \A r \in PlaceRequests :
        PlaceFound(r) =>
            /\ (/\ CandStart(r) + CandWidth(r) = ShelfWidth(r.shelf_id)
                /\ ProductHeight(r.product_id) <= segments[r.segment_id].height
                /\ CandWidth(r) <= available_width(placements, r.segment_id)
                /\ CandOverlapped(r) = {}) =>
                  /\ PlaceAnswer(r) = "ok"
                  /\ LET row == PlaceCreate(placements, r)
                     IN  /\ row.x_position = CandStart(r)
                         /\ row.x_position + row.occupied_width
                               = ShelfWidth(r.shelf_id)
            /\ (CandStart(r) + CandWidth(r) > ShelfWidth(r.shelf_id)) =>
                  /\ PlaceAnswer(r) \notin {"ok", "error"}
                  /\ PlaceTable(placements, nextId, PlaceAnswer(r), r) = placements

\* a placement is stored at 5.0 cm and ends exactly at the shelf width (a
\* request sent with x_position 5.0 or 5.01 stores it), and in that state a
\* request ending beyond the shelf width after rounding is refused for the
\* width
C10_Witness ==
    /\ \E i \in DOMAIN placements :
          /\ placements[i].x_position = RoundCm(501)
          /\ placements[i].occupied_width = 500
          /\ placements[i].face_count = 11
    /\ \E r \in PlaceRequests :
          /\ CandStart(r) + CandWidth(r) > ShelfWidth(r.shelf_id)
          /\ PlaceAnswer(r) = "width"

----------------------------------------------------------------------------
(* C11 *)

\* C11: ProductPlacementService.place_product, called with arguments for
\* which validate_placement finds no violation, succeeds: it raises
\* nothing, adds exactly one placement to the table and returns it, with
\* occupied_width round_cm(width * face_count).
C11_ServicePlaceSucceeds ==
    \A r \in ServiceRequests :
        validate_placement(placements, segments, r) = <<>> =>
            LET out == place_product(placements, nextId, segments, r)
            IN  /\ out.raised = "none"
                /\ out.returned = Some(nextId)
                /\ DOMAIN out.table = DOMAIN placements \cup {nextId}
                /\ \A i \in DOMAIN placements : out.table[i] = placements[i]
                /\ out.table[nextId].occupied_width = CandWidth(r)
                /\ out.table[nextId].x_position = RoundCm(r.x_position)

----------------------------------------------------------------------------
(* C12 *)

\* the candidate of a call of the service is legal: face count in
\* [1, MAX_FACE_COUNT], x_position >= 0, the product no taller than the
\* segment, the candidate ending within the shelf and overlapping no
\* placement of the segment
ServiceLegal(r) ==
    /\ r.face_count \in 1..MaxFaceCount
    /\ r.x_position >= 0
    /\ ProductHeight(r.product_id) <= segments[r.segment_id].height
    /\ r.x_position + CandWidth(r) <= ShelfWidth(r.shelf_id)
    /\ \A i \in DOMAIN placements :
          placements[i].segment = r.segment_id =>
              ~Overlap(RoundCm(r.x_position),
                       RoundCm(r.x_position + CandWidth(r)),
                       IntervalStart(placements[i]), IntervalEnd(placements[i]))

\* C12: validate_placement returns the empty list if and only if the
\* candidate is legal.
C12_ValidateIffLegal ==
    \A r \in ServiceRequests :
        (validate_placement(placements, segments, r) = <<>>) <=> ServiceLegal(r)

----------------------------------------------------------------------------
(* The vocabulary of the claims about fix_overlaps *)

\* two placements of segment g of table pls overlap by more than 0.05 cm
SegmentOverlaps(pls, g) ==
    \E i, j \in SegPlacements(pls, g) :
        /\ i # j
        /\ Overlap(IntervalStart(pls[i]), IntervalEnd(pls[i]),
                   IntervalStart(pls[j]), IntervalEnd(pls[j]))

\* what fix_overlaps on shelf 1 leaves and reports, the database returning
\* the placements in the orders given
Repair(orders, strategy, dry_run) ==
    fix_shelf_overlaps(placements, 1, orders, strategy, dry_run)

----------------------------------------------------------------------------
(* C13 *)

\* C13: after fix_overlaps with the compact strategy, not as a dry run, on a
\* segment that had overlaps, no two placements of that segment overlap by
\* more than 0.05 cm, whatever the arrangement was.
C13_CompactRemovesOverlaps ==
    \A orders \in ShelfOrders(placements, 1) :
        \A g \in DOMAIN orders :
            SegmentOverlaps(placements, g)
                => ~SegmentOverlaps(Repair(orders, "compact", FALSE).table, g)

----------------------------------------------------------------------------
(* C14 *)

\* the placements of segment g are wider in total than its shelf
OverCapacity(pls, g) ==
    SumOccupied(pls, SegPlacements(pls, g)) > ShelfWidth(SegShelf(g))

\* C14: when the occupied widths of a segment's placements add up to more
\* than the shelf width, the spread strategy gives up on that segment: it
\* reports zero fixes and leaves the table as it was, dry run or not; a
\* fix_overlaps run with the spread strategy over a shelf all of whose
\* overlapping segments are over capacity reports zero and changes nothing.
C14_SpreadOverCapacityDoesNothing ==
    \A orders \in ShelfOrders(placements, 1) : \A dry_run \in BOOLEAN :
        /\ \A g \in DOMAIN orders :
               OverCapacity(placements, g)
                   => fix_overlaps_spread(placements, g, orders[g], dry_run)
                          = [table |-> placements, fixed |-> 0]
        /\ (\A g \in DOMAIN orders :
                SegmentOverlaps(placements, g) => OverCapacity(placements, g))
               => Repair(orders, "spread", dry_run)
                      = [table |-> placements, fixed |-> 0]

\* a spread run that was not a dry run has reported zero fixes on a shelf
\* whose segment 1 holds overlapping placements wider than the shelf
C14_Witness ==
    /\ report = Some([command |-> "fix_overlaps", strategy |-> "spread",
                      dry_run |-> FALSE, fixed |-> 0])
    /\ SegmentOverlaps(placements, 1)
    /\ OverCapacity(placements, 1)

----------------------------------------------------------------------------
(* C15 *)

\* the placements a repair that left table out removed
Removed(out) == DOMAIN placements \ DOMAIN out.table

\* placements i and j of the current table overlap by more than 0.05 cm
PairOverlaps(i, j) ==
    /\ i # j
    /\ placements[i].segment = placements[j].segment
    /\ Overlap(IntervalStart(placements[i]), IntervalEnd(placements[i]),
               IntervalStart(placements[j]), IntervalEnd(placements[j]))

\* what C15 says of every delete_duplicates run but for the smallest
\* x_position: no overlap is left on a segment that had some, of an
\* overlapping pair the placement further right is removed, the rows left
\* are as they were, and the count reported is the number of rows removed
DeleteBasics(out) ==
    /\ \A g \in Segs :
           SegmentOverlaps(placements, g) => ~SegmentOverlaps(out.table, g)
    /\ \A i, j \in DOMAIN placements :
           (PairOverlaps(i, j) /\ placements[i].x_position < placements[j].x_position)
               => j \in Removed(out)
    /\ \A i \in DOMAIN out.table : out.table[i] = placements[i]
    /\ DOMAIN out.table \subseteq DOMAIN placements
    /\ out.fixed = Cardinality(Removed(out))

\* C15 as stated: after fix_overlaps with the delete_duplicates strategy, not
\* as a dry run, no overlap is left; of every overlapping pair the placement
\* with the larger x_position is removed; a placement with the smallest
\* x_position of its segment is never removed; the count reported is the
\* number of placements removed.
C15_SmallestNeverRemoved ==
    \A orders \in ShelfOrders(placements, 1) :
        LET out == Repair(orders, "delete_duplicates", FALSE)
        IN  /\ DeleteBasics(out)
            /\ \A i \in DOMAIN placements :
                   (\A j \in SegPlacements(placements, placements[i].segment) :
                        placements[i].x_position <= placements[j].x_position)
                       => i \notin Removed(out)

\* C15, amended: as above, but of the smallest x_position it holds that a
\* placement strictly to the left of every other placement of its segment
\* is never removed, and that of the placements sharing the smallest
\* x_position of a segment at least one remains.
C15_LeftmostKept ==
    \A orders \in ShelfOrders(placements, 1) :
        LET out == Repair(orders, "delete_duplicates", FALSE)
        IN  /\ DeleteBasics(out)
            /\ \A i \in DOMAIN placements :
                   (\A j \in SegPlacements(placements, placements[i].segment) \ {i} :
                        placements[i].x_position < placements[j].x_position)
                       => i \notin Removed(out)
            /\ \A g \in Segs :
                   SegPlacements(placements, g) # {}
                       => \E i \in SegPlacements(out.table, g) :
                              \A j \in SegPlacements(placements, g) :
                                  placements[i].x_position <= placements[j].x_position

\* a delete_duplicates run that was not a dry run has removed two of the
\* three placements ever created
C15_Witness ==
    /\ report = Some([command |-> "fix_overlaps", strategy |-> "delete_duplicates",
                      dry_run |-> FALSE, fixed |-> 2])
    /\ nextId = RaceCap + 1
    /\ Cardinality(DOMAIN placements) = 1

----------------------------------------------------------------------------
(* C16 *)

----------------------------------------------------------------------------
(* C17 *)

\* a product placed on a segment named in height_data is taller than the
\* height proposed for it
TooTall(height_data) ==
    \E g \in DOMAIN height_data : \E i \in SegPlacements(placements, g) :
        ProductHeight(placements[i].product) > height_data[g]

\* C17: a segment height update is rejected when a product placed on a
\* segment it names is taller than the proposed height, and a rejected
\* update leaves every segment with the height and y_position it had,
\* segments of lower level handled earlier in the request included; of the
\* view shelf_segment_edit and of ShelfService.update_segment_heights.
C17_RejectedEditChangesNothing ==
    \A s \in Shelves : \A height_data \in AdminEditRequests(s) :
        LET view == SegmentEditOutcome(segments, placements, s, height_data)
            service == update_segment_heights(segments, placements, s, height_data)
        IN  /\ TooTall(height_data) => (~view.ok /\ service.raised # "none")
            /\ ~view.ok => view.segments = segments
            /\ service.raised # "none" => service.segments = segments

----------------------------------------------------------------------------
(* C18 *)

\* table after holds no placement of shelf s, holds every other placement of
\* the current table unchanged, and count is the number of rows removed
ClearedOnly(after, s, count) ==
    /\ \A i \in DOMAIN after : after[i].shelf # s
    /\ DOMAIN after \subseteq DOMAIN placements
    /\ \A i \in DOMAIN placements :
           placements[i].shelf # s => (i \in DOMAIN after /\ after[i] = placements[i])
    /\ count = Cardinality(DOMAIN placements \ DOMAIN after)

\* C18: clear-all on a shelf removes every placement of that shelf, leaves
\* the placements of every other shelf unchanged and reports the number of
\* placements it removed; of the view clear_all_placements_ajax and of the
\* command reset_placements.
C18_ClearAllRemovesShelf ==
    \A s \in Shelves :
        /\ ClearedOnly(ClearTable(placements, s), s, ClearCount(placements, s))
        /\ ClearedOnly(ResetTable(placements, s), s, ResetCount(placements, s))

\* two placements were created, no command has run, shelf 1 is empty and
\* shelf 2 still holds its placement: a clear-all request of shelf 1 removed
\* the other one
C18_Witness ==
    /\ report = None
    /\ nextId = 3
    /\ ShelfPlacements(placements, 1) = {}
    /\ Cardinality(ShelfPlacements(placements, 2)) = 1

----------------------------------------------------------------------------
(* C19 *)

\* the update requests and the delete requests C19 is stated over
DeleteBodies == [placement_id : 1..MaxId]

\* C19: a place, update or delete request naming a shelf, segment, product
\* or placement that does not exist (or a segment of another shelf) leaves
\* the table as it was, and its answer differs from the answer to a request
\* refused for a violation and from the answer to a request that failed for
\* another reason (a malformed body).
C19_NotFoundDistinct ==
    /\ \A r \in PlaceRequests :
           ~PlaceFound(r) =>
               /\ PlaceTable(placements, nextId, PlaceAnswer(r), r) = placements
               /\ PlaceResult(placements, segments, r)
                      # PlaceResult(placements, segments, MalformedBody)
               /\ \A q \in PlaceRequests :
                      PlaceAnswer(q) \in {"fit", "width", "overlap"}
                          => PlaceResult(placements, segments, r)
                                 # PlaceResult(placements, segments, q)
    /\ \A r \in MoveRequests :
           ~MoveFound(placements, r) =>
               /\ MoveTable(placements, MoveAnswer(r), r) = placements
               /\ MoveResult(placements, segments, r)
                      # MoveResult(placements, segments, MalformedBody)
               /\ \A q \in MoveRequests :
                      MoveAnswer(q) \in {"fit", "width", "overlap", "clean"}
                          => MoveResult(placements, segments, r)
                                 # MoveResult(placements, segments, q)
    /\ \A r \in DeleteBodies :
           r.placement_id \notin DOMAIN placements =>
               /\ DeleteTable(placements, r.placement_id) = placements
               /\ DeleteResult(placements, r) # DeleteResult(placements, MalformedBody)

----------------------------------------------------------------------------
(* C20 *)

\* C20: place requests served concurrently without a lock can bring two
\* overlapping placements onto a segment (the witness), and only so: an
\* INSERT of a place request whose reads saw the table exactly as it is at
\* the INSERT, as when the requests are served one after the other, adds a
\* placement that overlaps no placement of its segment.
C20_SerializedInsertNeverOverlaps ==
    [][\A w \in Workers :
           (/\ pending[w] # None
            /\ pending'[w] = None
            /\ pending[w][1].seen = placements)
               => \A i \in SegPlacements(placements, pending[w][1].request.segment_id) :
                      ~Overlap(IntervalStart(placements'[nextId]),
                               IntervalEnd(placements'[nextId]),
                               IntervalStart(placements[i]),
                               IntervalEnd(placements[i]))]_vars

\* two placements of segment 1 overlap, every request has been answered and
\* no command has run: each of the two was checked before the other was
\* inserted
C20_Witness ==
    /\ report = None
    /\ \A w \in Workers : pending[w] = None
    /\ nextId = 3
    /\ SegmentOverlaps(placements, 1)

----------------------------------------------------------------------------
(* C21 *)

\* order is 1 + the largest placement_order on segment g of the current
\* table, 1 when the segment is empty
OneMoreThanLargest(order, g) ==
    /\ \A i \in SegPlacements(placements, g) : order > placements[i].placement_order
    /\ \/ SegPlacements(placements, g) = {} /\ order = 1
       \/ \E i \in SegPlacements(placements, g) :
              order = placements[i].placement_order + 1

\* the part of C21 about the view: an accepted place request stores the new
\* placement with placement_order 1 + the largest on the target segment
ViewPlaceOrder ==
    \A r \in PlaceRequests :
        PlaceAnswer(r) = "ok"
            => OneMoreThanLargest(
                   PlaceTable(placements, nextId, "ok", r)[nextId].placement_order,
                   r.segment_id)

\* the part of C21 about the service: place_product with arguments that
\* validate stores the new placement with placement_order 1 + the largest on
\* the target segment
ServicePlaceOrder ==
    \A r \in ServiceRequests :
        validate_placement(placements, segments, r) = <<>>
            => LET out == place_product(placements, nextId, segments, r)
               IN  /\ out.returned = Some(nextId)
                   /\ nextId \in DOMAIN out.table
                   /\ OneMoreThanLargest(out.table[nextId].placement_order, r.segment_id)

\* C21: a place that passes validation gives the new placement
\* placement_order = 1 + the largest placement_order on the target segment
\* at that moment (1 when the segment is empty), which is greater than that
\* of every other placement on the segment; of the view and of the service.
C21_PlaceOrderIsMaxPlusOne == ViewPlaceOrder /\ ServicePlaceOrder

----------------------------------------------------------------------------
(* C22 *)

\* the placements of table after follow each other in the order o, the
\* first at 0 and each next one 0.1 cm after the end of the one before
PackedFromZero(after, o) ==
    /\ after[o[1]].x_position = 0
    /\ \A k \in 1..(Len(o) - 1) :
           after[o[k + 1]].x_position
               = after[o[k]].x_position + after[o[k]].occupied_width + CompactGap

\* C22: fix_overlaps with the compact strategy, not as a dry run, on a
\* segment with overlaps keeps the placements in their left-to-right order
\* and puts the first at 0 and each next one at the new end of the one
\* before plus 0.1 cm; the placements recorded as moved are those whose
\* x_position changed.
C22_CompactPacksFromZero ==
    \A orders \in ShelfOrders(placements, 1) :
        \A g \in DOMAIN orders :
            SegmentOverlaps(placements, g)
                => LET out == Repair(orders, "compact", FALSE)
                   IN  /\ DOMAIN out.table = DOMAIN placements
                       /\ PackedFromZero(out.table, orders[g])
                       /\ out.fixed = Cardinality({i \in DOMAIN placements :
                              out.table[i].x_position # placements[i].x_position})

----------------------------------------------------------------------------
(* C23 *)

\* the free width left of the leftmost and right of the rightmost placement
\* of segment g of table pls, which holds the placements ids
GapBefore(pls, ids) ==
    LET first == CHOOSE i \in ids : \A j \in ids : pls[i].x_position <= pls[j].x_position
    IN  pls[first].x_position

GapAfter(pls, ids, g) ==
    LET last == CHOOSE i \in ids :
                    \A j \in ids : pls[i].x_position + pls[i].occupied_width
                                       >= pls[j].x_position + pls[j].occupied_width
    IN  ShelfWidth(SegShelf(g)) - (pls[last].x_position + pls[last].occupied_width)

\* C23: after fix_overlaps with the spread strategy, not as a dry run, on a
\* segment with overlaps whose placements are in total no wider than the
\* shelf, no two placements of the segment overlap by more than 0.05 cm,
\* every placement lies within [0, shelf width], the total occupied width is
\* what it was, and, where the free width divides evenly so that nothing is
\* rounded, the gap before the first placement equals the gap after the last.
C23_SpreadSeparates ==
    \A orders \in ShelfOrders(placements, 1) :
        \A g \in DOMAIN orders :
            (SegmentOverlaps(placements, g) /\ ~OverCapacity(placements, g))
                => LET after == Repair(orders, "spread", FALSE).table
                       ids == SegPlacements(after, g)
                       free == ShelfWidth(SegShelf(g)) - SumOccupied(after, ids)
                   IN  /\ ~SegmentOverlaps(after, g)
                       /\ \A i \in ids :
                              /\ after[i].x_position >= 0
                              /\ after[i].x_position + after[i].occupied_width
                                     <= ShelfWidth(SegShelf(g))
                       /\ ids = SegPlacements(placements, g)
                       /\ SumOccupied(after, ids) = SumOccupied(placements, ids)
                       /\ (free % (20 * Cardinality(ids)) = 0)
                              => GapBefore(after, ids) = GapAfter(after, ids, g)

----------------------------------------------------------------------------
(* C24 *)

\* the sum of the heights of the segments of shelf s below level l
RECURSIVE HeightBelow(_, _, _)
HeightBelow(segs, s, l) ==
    IF l <= 1 THEN 0
    ELSE LET below == CHOOSE g \in Segs : SegShelf(g) = s /\ SegLevel(g) = l - 1
         IN  segs[below].height + HeightBelow(segs, s, l - 1)

\* every segment of shelf s sits at the sum of the heights of the segments
\* of lower level, and the levels of the shelf are 1..n without repetition
Stacked(segs, s) ==
    LET own == {g \in Segs : SegShelf(g) = s}
    IN  /\ \A l \in 1..Cardinality(own) :
               Cardinality({g \in own : SegLevel(g) = l}) = 1
        /\ \A g \in own : segs[g].y_position = HeightBelow(segs, s, SegLevel(g))

\* C24: after an accepted segment height update, naming all segments of the
\* shelf or only some, every segment of the shelf is at the sum of the
\* heights of its segments of lower level; so are the segments of a newly
\* created shelf, whose levels are 1..n without repetition.
C24_SegmentsStack ==
    /\ \A s \in Shelves : Stacked(CreatedSegments, s)
    /\ \A s \in Shelves : \A height_data \in AdminEditRequests(s) :
           LET view == SegmentEditOutcome(segments, placements, s, height_data)
               service == update_segment_heights(segments, placements, s, height_data)
           IN  /\ view.ok => Stacked(view.segments, s)
               /\ service.raised = "none" => Stacked(service.segments, s)

----------------------------------------------------------------------------
(* C25 *)

\* the stored width of placement pl is the recomputed one exactly
WidthExact(pl) == pl.occupied_width = RoundCm(ProductWidth(pl.product) * pl.face_count)

\* every placement on the segments of shelf s has the stored width exactly,
\* fits the height of its segment, ends within the shelf width, and no two
\* of a segment overlap
ShelfSound(s) ==
    \A g \in Segs :
        SegShelf(g) = s =>
            /\ \A i \in SegPlacements(placements, g) :
                   /\ WidthExact(placements[i])
                   /\ ProductHeight(placements[i].product) <= segments[g].height
                   /\ IntervalEnd(placements[i]) <= ShelfWidth(s)
            /\ ~SegmentOverlaps(placements, g)

\* C25: validate_shelf reports no issue for a shelf if and only if every
\* placement on the shelf's segments has exactly the recomputed width as its
\* stored width, is no taller than its segment, ends within the shelf
\* width, and overlaps no other placement of its segment.
C25_SweepCleanIffSound ==
    \A s \in Shelves : \A orders \in ShelfOrders(placements, s) :
        (validate_shelf(placements, segments, s, orders) = <<>>) <=> ShelfSound(s)

----------------------------------------------------------------------------
(* C26 *)

\* the endpoints the test is tried on: multiples of 0.1 cm
GridPoints == {0, 10, 20, 30, 40, 50}

\* the intervals with endpoints on the grid
GridIntervals == {iv \in GridPoints \X GridPoints : iv[1] < iv[2]}

\* the width of the span the intervals A and B share (negative when they
\* are apart)
SharedSpan(A, B) == Min(A[2], B[2]) - Max(A[1], B[1])

\* the answer of the copy of the test in models.py, the two views and
\* fix_overlaps, and of the copy in validate_shelf
TestAnswer(A, B) == IsOverlapping(A[1], A[2], B[1], B[2])

SweepAnswer(A, B) ==
    RangesOverlap([start |-> A[1], end |-> A[2]], [start |-> B[1], end |-> B[2]])

\* C26: on two intervals with endpoints on multiples of 0.1 cm the overlap
\* test with tolerance 0.05 cm is symmetric, is false when the intervals
\* exactly touch, is true when they share a span of at least 0.1 cm, and
\* every copy of the test gives the same answer; so also on the ranges of
\* any two placements of the table.
C26_OverlapTestSound ==
    /\ \A A, B \in GridIntervals :
           /\ TestAnswer(A, B) = TestAnswer(B, A)
           /\ SweepAnswer(A, B) = SweepAnswer(B, A)
           /\ (A[2] = B[1] \/ B[2] = A[1]) => (~TestAnswer(A, B) /\ ~SweepAnswer(A, B))
           /\ SharedSpan(A, B) >= 10 => (TestAnswer(A, B) /\ SweepAnswer(A, B))
           /\ TestAnswer(A, B) = SweepAnswer(A, B)
    /\ \A i, j \in DOMAIN placements :
           LET A == <<RangeStart(placements[i]), RangeEnd(placements[i])>>
               B == <<RangeStart(placements[j]), RangeEnd(placements[j])>>
           IN  /\ TestAnswer(A, B) = SweepAnswer(A, B)
               /\ TestAnswer(A, B) = TestAnswer(B, A)
               /\ (A[2] = B[1] \/ B[2] = A[1]) => ~SweepAnswer(A, B)
               /\ SharedSpan(A, B) >= 10 => SweepAnswer(A, B)

\* the sweep has found no issue on a segment holding two placements that
\* exactly touch
C26_Witness ==
    /\ report # None
    /\ report[1].command = "validate_shelf"
    /\ report[1].shelf_id = 1
    /\ report[1].issues = <<>>
    /\ \E i, j \in SegPlacements(placements, 1) :
           /\ i # j
           /\ RangeEnd(placements[i]) = RangeStart(placements[j])

----------------------------------------------------------------------------
(* C27 *)

\* the placement's shelf is the shelf of its segment
OnOwnShelf(pl) == pl.shelf = SegShelf(pl.segment)

\* C27: after any sequence of place and move requests, moves to another
\* segment included, every placement's shelf is the shelf of its segment;
\* and so it stays after any further place or move request, whichever shelf
\* and segment the request names.
C27_ShelfIsSegmentShelf ==
    /\ \A i \in DOMAIN placements : OnOwnShelf(placements[i])
    /\ \A r \in CrossPlaceRequests :
           LET t == PlaceTable(placements, nextId,
                               PlaceVerdict(placements, segments, r), r)
           IN  \A i \in DOMAIN t : OnOwnShelf(t[i])
    /\ \A r \in CrossMoveRequests :
           LET t == MoveTable(placements,
                              MoveVerdict(placements, segments, r), r)
           IN  \A i \in DOMAIN t : OnOwnShelf(t[i])

\* a placement has been moved to segment 2 while shelf 2 holds a placement
\* that a request could name with a segment of shelf 1
C27_Witness ==
    \E i, j \in DOMAIN placements :
        /\ placements[i].segment = 2
        /\ placements[j].shelf = 2

----------------------------------------------------------------------------
(* C28 *)

\* C28: after any sequence of place, delete and move requests, moves that
\* carry a placement with its placement_order into another segment included,
\* the placement_order values of the placements of one segment are pairwise
\* distinct.
C28_OrdersDistinctPerSegment ==
    \A i, j \in DOMAIN placements :
        (/\ i # j
         /\ placements[i].segment = placements[j].segment)
            => placements[i].placement_order # placements[j].placement_order

----------------------------------------------------------------------------
(* C29 *)

\* C29: fix_overlaps with the delete_duplicates strategy, not as a dry run,
\* removes a placement only if it overlaps some placement that remains after
\* the run; it never removes a placement whose only overlaps were with
\* placements that are themselves removed.
C29_RemovedOverlapsARemaining ==
    \A orders \in ShelfOrders(placements, 1) :
        LET out == Repair(orders, "delete_duplicates", FALSE)
        IN  \A i \in Removed(out) :
                \E j \in DOMAIN out.table : PairOverlaps(i, j)

----------------------------------------------------------------------------
(* C30 *)

\* the strategies that move placements
MovingStrategies == {"compact", "spread"}

====
